---- MODULE Spec2Model ----
(***************************************************************************)
(* Tech Lead agents: the LangGraph pipeline (tech_lead_langgraph/graph.py, *)
(* main.py) and the CrewAI tool-refresh wrapper (tech_lead_crew/crew.py).  *)
(*                                                                         *)
(* Text is a sequence of one-character strings.  An optional value (a      *)
(* Python value that may be None) is a sequence of length 0 (None) or 1.   *)
(***************************************************************************)
EXTENDS Integers, Sequences, FiniteSets, TLC

VARIABLES
    \* ---- LangGraph pipeline (one graph.invoke at a time per process) ----
    state,      \* the AgentState dict threaded through the nodes
    active,     \* nodes scheduled by the compiled graph
    status,     \* "idle" | "running" | "done" | "raised"
    trace,      \* nodes executed by the current invocation, in order
    calls,      \* MCP tool calls issued by the current invocation, in order
    llmCalls,   \* llm.invoke calls made by the current invocation
    llmOut,     \* what the invocation's llm.invoke call did (None: not called)
    lastOut,    \* what the tool calls of the node that ran last did, in order
    \* ---- the process environment ----
    env,        \* os.environ: JIRA_MCP_URL and BITBUCKET_MCP_URL, set or not
    \* ---- CrewAI wrapper (EventLoopSafeCrew around one TechLeadCrew) ----
    adapter,    \* TechLeadCrew._mcp_server_adapter: 0 is None, else adapter id
    agentTools, \* agent.tools of every agent of the crew: adapter id of the tools
    nextId,     \* identity of the next adapter object to be created
    live,       \* adapters created and not stopped or collected
    kpc,        \* position of every kickoff invocation
    mode,       \* "sync" (kickoff) or "async" (kickoff_async)
    fresh,      \* local fresh_tools of every invocation (0: not assigned)
    cursor,     \* position of the loop "for agent in self._crew.agents"
    failed,     \* the invocation's refresh raised inside get_mcp_tools
    held,       \* agent.tools when the invocation was entered
    used,       \* agent.tools when the underlying kickoff started
    doneBefore, \* invocations that had returned when this one was entered
    refreshes,  \* calls of _refresh_agent_tools the invocation has completed
    gets,       \* get_mcp_tools() calls made by the invocation's refresh
    under,      \* the invocation's inputs and the underlying crew's kickoff
    \* ---- TechLeadCrew.tech_lead_crew(): the agent and its MCP tools ----
    bpc,        \* "none" | "attempt" | "agent" | "ValueError" | "RuntimeError"
    attempt,    \* the loop variable of "for attempt in range(max_retries)"
    tries,      \* get_mcp_tools() calls made by the current tech_lead_crew()
    fails,      \* how many of them raised
    waits,      \* the time.sleep() arguments of the current call, in order
    builds,     \* calls of tech_lead_crew() so far
    crewBuilt,  \* crew() has built the Crew around the first agent
    mcp_tools,  \* the list mcp_tools of the current tech_lead_crew() call
    \* ---- concurrent graph.invoke calls on one compiled graph ----
    dicts,      \* the AgentState dicts created so far
    runDict,    \* for every run, the index of its dict in dicts (0: none)
    runAt,      \* for every run: "idle", the node it runs next, END or "raised"
    runGiven,   \* for every run: its input and what its tools and client do
    runResult,  \* for every run: final_output of the state graph.invoke returned
    \* ---- MCPLangChainTool._run and MCPToolWrapper.call ----
    tpc,        \* position of the _run in progress: "idle", "open", "call", "exit"
    sess,       \* the sessions "async with Client(url)" has created, in order
    wire,       \* what call_tool did in the _run in progress (None: not yet)
    toolRet,    \* for every _run that has ended: what the server did, what it gave
    client,     \* MCPToolWrapper._client: None or the index of a Client
    clients,    \* the Client objects the wrapper has created, in order
    wlog        \* what every MCPToolWrapper.call() that has ended did

pipeVars == <<state, active, status, trace, calls, llmCalls, llmOut, lastOut>>
crewVars == <<adapter, agentTools, nextId, live, kpc, mode, fresh, cursor,
              failed, held, used, doneBefore, refreshes, gets, under>>
buildVars == <<bpc, attempt, tries, fails, waits, builds, crewBuilt,
               mcp_tools>>
runVars == <<dicts, runDict, runAt, runGiven, runResult>>
\* what the steps of the wrapper, and those of the pipeline, leave alone
toolVars == <<tpc, sess, wire, toolRet, client, clients, wlog>>
offCrew == <<pipeVars, env, buildVars, runVars, toolVars>>
offPipe == <<crewVars, env, buildVars, runVars, toolVars>>
vars == <<state, active, status, trace, calls, llmCalls, llmOut, lastOut, env,
          adapter, agentTools, nextId, live, kpc, mode, fresh, cursor,
          failed, held, used, doneBefore, refreshes, gets, under,
          bpc, attempt, tries, fails, waits, builds, crewBuilt, mcp_tools,
          dicts, runDict, runAt, runGiven, runResult,
          tpc, sess, wire, toolRet, client, clients, wlog>>

(***************************************************************************)
(* Optional values and text                                                *)
(***************************************************************************)
None == <<>>
Some(x) == <<x>>
IsNone(o) == Len(o) = 0
IsSome(o) == Len(o) = 1
Val(o) == o[1]

Upper == {"A","B","C","D","E","F","G","H","I","J","K","L","M",
          "N","O","P","Q","R","S","T","U","V","W","X","Y","Z"}
Digit == {"0","1","2","3","4","5","6","7","8","9"}

\* end of the maximal run of characters of class C that starts at i
\* (i-1 when s[i] is not in C)
RunEnd(s, i, C) ==
    CHOOSE j \in (i-1)..Len(s) :
        /\ \A m \in i..j : s[m] \in C
        /\ (j = Len(s) \/ s[j+1] \notin C)

\* end of the match of [A-Z]+-\d+ anchored at i, 0 when there is none
KeyMatchEnd(s, i) ==
    LET u == RunEnd(s, i, Upper) IN
    IF u >= i /\ u + 2 <= Len(s) /\ s[u+1] = "-" /\ s[u+2] \in Digit
    THEN RunEnd(s, u + 2, Digit)
    ELSE 0

\* a search that returns the rightmost match
KeySearchLast(s) ==
    LET starts == {i \in 1..Len(s) : KeyMatchEnd(s, i) > 0} IN
    IF starts = {} THEN None
    ELSE LET i == CHOOSE x \in starts : \A y \in starts : x >= y
         IN Some(SubSeq(s, i, KeyMatchEnd(s, i)))

\* re.search(r'([A-Z]+-\d+)', s): the leftmost match, None when there is none
KeySearch(s) ==
    LET starts == {i \in 1..Len(s) : KeyMatchEnd(s, i) > 0} IN
    IF starts = {} THEN None
    ELSE LET i == CHOOSE x \in starts : \A y \in starts : x <= y
         IN Some(SubSeq(s, i, KeyMatchEnd(s, i)))

\* str.strip() over blanks
Strip(s) ==
    LET keep == {i \in 1..Len(s) : s[i] # " "} IN
    IF keep = {} THEN <<>>
    ELSE SubSeq(s, CHOOSE x \in keep : \A y \in keep : x <= y,
                   CHOOSE x \in keep : \A y \in keep : x >= y)

\* re.match(r'^[A-Z]+-\d+$', s)
KeyFullMatch(s) == Len(s) > 0 /\ KeyMatchEnd(s, 1) = Len(s)


(***************************************************************************)
(* AgentState and the run() entry point                                    *)
(***************************************************************************)
AnalyzePrefix ==
    <<"A","n","a","l","y","z","e"," ","J","i","r","a"," ",
      "i","s","s","u","e"," ">>
NoneText == <<"N","o","n","e">>

\* the dict handed to run(): with or without the item 'jira_issue_key'
KeyTexts ==
    { <<>>,
      <<"A","B","-","1">>,
      <<"a","b","-","1">>,
      <<"A","B","-">>,
      <<"A","-","1"," ","B","-","2","0">> }
Inputs ==
    {[present |-> TRUE, key |-> k] : k \in KeyTexts}
        \cup {[present |-> FALSE, key |-> <<>>]}

HumanMessage(c) == [form |-> "msg", role |-> "human", content |-> c]
AIMessage(c) == [form |-> "msg", role |-> "ai", content |-> c]

\* placeholder before the first invocation: no AgentState exists yet
BlankState ==
    [messages |-> <<>>, jira_issue_key |-> <<>>, jira_issue |-> None,
     workspace |-> None, repo_slug |-> None, repo_list |-> None,
     repo_files |-> None, final_output |-> None]

InitialState(inp) ==
    [messages |-> <<HumanMessage(AnalyzePrefix \o
                        (IF inp.present THEN inp.key ELSE NoneText))>>,
     jira_issue_key |-> inp.key,
     jira_issue |-> None,
     workspace |-> None,
     repo_slug |-> None,
     repo_list |-> None,
     repo_files |-> None,
     final_output |-> None]

\* what a node hands back to the graph: the state it returns, the tool calls
\* and llm calls it made, and whether it raised instead of returning
Returned(s, c, n) == [st |-> s, calls |-> c, llm |-> n, raised |-> FALSE]
Raised(s, c, n) == [st |-> s, calls |-> c, llm |-> n, raised |-> TRUE]

Call(tool, path) == [tool |-> tool, path |-> path]

(***************************************************************************)
(* The environment and the endpoints of the tools (mcp_tools.py).          *)
(***************************************************************************)
ClusterJiraUrl == "http://agentgateway/mcp/core/jira-mcp/"
ClusterBitbucketUrl == "http://agentgateway/mcp/core/bitbucket-mcp/"
JiraDefaultUrl == "http://localhost:3001/mcp"
BitbucketDefaultUrl == "http://localhost:3000/mcp"

\* os.environ: each of the two variables is set or not
Envs ==
    {[JIRA_MCP_URL |-> j, BITBUCKET_MCP_URL |-> b] :
        j \in {None, Some(ClusterJiraUrl)},
        b \in {None, Some(ClusterBitbucketUrl)}}
FullEnv ==
    [JIRA_MCP_URL |-> Some(ClusterJiraUrl),
     BITBUCKET_MCP_URL |-> Some(ClusterBitbucketUrl)]

\* os.getenv(name, default)
getenv(v, default) == IF IsSome(v) THEN Val(v) ELSE default

\* mcp_url of the tools the two factories build
create_jira_tools(e) == getenv(e.JIRA_MCP_URL, JiraDefaultUrl)
create_bitbucket_tools(e) == getenv(e.BITBUCKET_MCP_URL, BitbucketDefaultUrl)

\* the calls of a stage with the endpoint each one is sent to
Issued(cs, e) ==
    [i \in 1..Len(cs) |->
        [tool |-> cs[i].tool, path |-> cs[i].path,
         url |-> IF cs[i].tool = "jira_get_issue" THEN create_jira_tools(e)
                 ELSE create_bitbucket_tools(e)]]

(***************************************************************************)
(* process_input                                                           *)
(***************************************************************************)
\* one item of state["messages"] after the isinstance dispatch
NormalizeMessage(m) ==
    IF m.form = "tuple2"
    THEN IF m.role \in {"ai", "assistant"} THEN AIMessage(m.content)
         ELSE HumanMessage(m.content)
    ELSE IF m.form = "tuple" THEN HumanMessage(m.items[1])   \* str(msg[0])
    ELSE IF m.form = "msg" THEN m
    ELSE HumanMessage(m.content)

process_input(s) ==
    IF \E i \in 1..Len(s.messages) :
           \/ s.messages[i].form = "tuple0"
           \/ s.messages[i].form = "tuple" /\ Len(s.messages[i].items) = 0
    THEN Raised(s, <<>>, 0)          \* msg[0] of an empty tuple: IndexError
    ELSE
    LET normalized == [i \in 1..Len(s.messages) |->
                           NormalizeMessage(s.messages[i])]
        content == normalized[Len(normalized)].content
        found ==
            IF Len(normalized) = 0 THEN None
            ELSE IF IsSome(KeySearch(content)) THEN KeySearch(content)
            ELSE IF KeyFullMatch(Strip(content)) THEN Some(Strip(content))
            ELSE None
        key ==
            IF IsSome(found) /\ Len(Val(found)) > 0 THEN Val(found)
            ELSE IF Len(s.jira_issue_key) = 0 THEN <<>>
            ELSE s.jira_issue_key
    IN Returned([s EXCEPT !.messages = normalized,
                          !.jira_issue_key = key], <<>>, 0)

(***************************************************************************)
(* Tool results.  MCPLangChainTool._run returns text or raises; the text   *)
(* either fails json.loads or decodes to a value.                          *)
(***************************************************************************)
NoVal == [t |-> "none"]
BadText(looks) == [looks |-> looks, valid |-> FALSE, val |-> NoVal]
JsonText(looks, v) == [looks |-> looks, valid |-> TRUE, val |-> v]
\* "": empty; "Error: ...": plain text; "{oops": JSON-looking, not decodable
UndecodableTexts == {BadText(FALSE), BadText(TRUE)}

ToolRaise == [kind |-> "raise", payload |-> BadText(FALSE)]
ToolCtorRaise == [kind |-> "ctor_raise", payload |-> BadText(FALSE)]
ToolOk(p) == [kind |-> "ok", payload |-> p]

\* ---- get_issue ----
IssueDict(d, u, p) ==
    [t |-> "dict", empty |-> FALSE, description |-> d, url |-> u, project |-> p]
EmptyDict ==
    [t |-> "dict", empty |-> TRUE, description |-> "absent", url |-> "absent",
     project |-> "absent"]
IssueList(e) ==
    [t |-> "list", empty |-> e, description |-> "absent", url |-> "absent",
     project |-> "absent"]
IssueValues ==
    {IssueDict(d, u, p) : d \in {"absent", "null", "text", "urlA"},
                          u \in {"absent", "text", "urlB"},
                          p \in {"absent", "dictKey", "dictNoKey"}}
        \cup {EmptyDict, IssueList(TRUE), IssueList(FALSE)}
\* a payload such as 42: json.loads accepts it, but it starts with neither
\* "{" nor "["
IssueScalar ==
    [t |-> "number", empty |-> FALSE, description |-> "absent",
     url |-> "absent", project |-> "absent"]
IssueOutcomes ==
    {ToolRaise, ToolCtorRaise, ToolOk(JsonText(FALSE, IssueScalar))}
        \cup {ToolOk(p) : p \in UndecodableTexts}
        \cup {ToolOk(JsonText(TRUE, v)) : v \in IssueValues}

\* ---- list_repositories ----
RepoValues ==
    { [t |-> "list", empty |-> FALSE, slugs |-> {"REPOA"}],
      [t |-> "list", empty |-> FALSE, slugs |-> {"OTHER"}],
      [t |-> "list", empty |-> TRUE, slugs |-> {}],
      [t |-> "number", empty |-> FALSE, slugs |-> {}],
      [t |-> "number", empty |-> TRUE, slugs |-> {}],
      [t |-> "null", empty |-> TRUE, slugs |-> {}] }
RepoOutcomes ==
    {ToolRaise, ToolCtorRaise, ToolOk(BadText(FALSE))}
        \cup {ToolOk(JsonText(v.t \in {"list"}, v)) : v \in RepoValues}

\* ---- list_repository_files ----
\* "files" of a listing: absent, a number, or a list of entries
FileEntries(files) ==
    IF files = "webstore"
    THEN {[path |-> "web-store", type |-> "directory"],
          [path |-> "README.md", type |-> "file"]}
    ELSE IF files = "webstore_file"
    THEN {[path |-> "web-store", type |-> "file"]}
    ELSE IF files = "plain"
    THEN {[path |-> "README.md", type |-> "file"]}
    ELSE {}
FilesValues ==
    { [t |-> "dict", files |-> "webstore"],
      [t |-> "dict", files |-> "webstore_file"],
      [t |-> "dict", files |-> "plain"],
      [t |-> "dict", files |-> "absent"],
      [t |-> "dict", files |-> "number"],
      [t |-> "list", files |-> "absent"] }
FilesOutcomes ==
    {ToolRaise, ToolCtorRaise, ToolOk(BadText(TRUE))}
        \cup {ToolOk(JsonText(TRUE, v)) : v \in FilesValues}

(***************************************************************************)
(* fetch_jira_issue                                                        *)
(***************************************************************************)
\* a stage that decodes whatever the tool returned
fetch_jira_issue_decodes_all(s, o) ==
    IF Len(s.jira_issue_key) = 0 THEN Returned(s, <<>>, 0)
    ELSE IF o.kind = "ctor_raise"
    THEN Returned([s EXCEPT !.jira_issue = None], <<>>, 0)
    ELSE LET c == <<Call("jira_get_issue", "")>> IN
         IF o.kind = "raise"
         THEN Returned([s EXCEPT !.jira_issue = None], c, 0)
         ELSE IF o.payload.valid
         THEN Returned([s EXCEPT !.jira_issue = Some(o.payload.val)], c, 0)
         ELSE Returned([s EXCEPT !.jira_issue = None], c, 0)

\* a stage that calls the tool a second time when the first call raises
fetch_jira_issue_retrying(s, o) ==
    IF Len(s.jira_issue_key) = 0 THEN Returned(s, <<>>, 0)
    ELSE IF o.kind = "ctor_raise"
    THEN Returned([s EXCEPT !.jira_issue = None], <<>>, 0)
    ELSE LET c == <<Call("jira_get_issue", "")>> IN
         IF o.kind = "raise"
         THEN Returned([s EXCEPT !.jira_issue = None], c \o c, 0)
         ELSE IF o.payload.looks /\ o.payload.valid
         THEN Returned([s EXCEPT !.jira_issue = Some(o.payload.val)], c, 0)
         ELSE Returned([s EXCEPT !.jira_issue = None], c, 0)

fetch_jira_issue(s, o) ==
    IF Len(s.jira_issue_key) = 0 THEN Returned(s, <<>>, 0)
    ELSE IF o.kind = "ctor_raise"
    THEN Returned([s EXCEPT !.jira_issue = None], <<>>, 0)
    ELSE LET c == <<Call("jira_get_issue", "")>> IN
         IF o.kind = "raise"
         THEN Returned([s EXCEPT !.jira_issue = None], c, 0)
         ELSE IF o.payload.looks /\ o.payload.valid
         THEN Returned([s EXCEPT !.jira_issue = Some(o.payload.val)], c, 0)
         ELSE Returned([s EXCEPT !.jira_issue = None], c, 0)

(***************************************************************************)
(* extract_repo_info                                                       *)
(***************************************************************************)
\* re.search(bitbucket_pattern, field): the two groups of the match, None
\* when the text holds no repository URL
RepoUrlSearch(field) ==
    IF field = "urlA" THEN Some([workspace |-> "WSA", repo_slug |-> "REPOA"])
    ELSE IF field = "urlB" THEN Some([workspace |-> "WSB", repo_slug |-> "REPOB"])
    ELSE None

\* bool(x) of a decoded JSON value
Truthy(v) == ~v.empty

extract_repo_info(s) ==
    IF IsNone(s.jira_issue) \/ ~Truthy(Val(s.jira_issue))
    THEN Returned(s, <<>>, 0)
    ELSE
    LET issue == Val(s.jira_issue)
        inDescription == RepoUrlSearch(issue.description)
        inUrl == RepoUrlSearch(issue.url)
    IN  \* list.get: AttributeError; re.search(pattern, None): TypeError;
        \* both are caught by the except clause, which writes nothing
        IF issue.t # "dict" \/ issue.description = "null"
        THEN Returned(s, <<>>, 0)
        ELSE IF IsSome(inDescription)
        THEN Returned([s EXCEPT
                 !.workspace = Some(Val(inDescription).workspace),
                 !.repo_slug = Some(Val(inDescription).repo_slug)], <<>>, 0)
        ELSE IF issue.url = "null"
        THEN Returned(s, <<>>, 0)
        ELSE IF IsSome(inUrl)
        THEN Returned([s EXCEPT
                 !.workspace = Some(Val(inUrl).workspace),
                 !.repo_slug = Some(Val(inUrl).repo_slug)], <<>>, 0)
        ELSE IF issue.project = "dictKey"
        THEN Returned([s EXCEPT !.workspace = Some("PRJ")], <<>>, 0)
        ELSE Returned(s, <<>>, 0)

(***************************************************************************)
(* list_repositories                                                       *)
(***************************************************************************)
\* a stage that drops the listing when it does not hold the repository
list_repositories_needs_slug(s, o) ==
    IF IsNone(s.workspace) THEN Returned(s, <<>>, 0)
    ELSE IF o.kind = "ctor_raise"
    THEN Returned([s EXCEPT !.repo_list = None], <<>>, 0)
    ELSE LET c == <<Call("listRepositories", "")>> IN
         IF o.kind = "raise" \/ ~o.payload.valid
         THEN Returned([s EXCEPT !.repo_list = None], c, 0)
         ELSE LET v == o.payload.val IN
              IF v.t = "null" \/ (v.t = "number" /\ Truthy(v))
              THEN Returned([s EXCEPT !.repo_list = None], c, 0)
              ELSE IF IsSome(s.repo_slug) /\ Val(s.repo_slug) \notin v.slugs
              THEN Returned([s EXCEPT !.repo_list = None], c, 0)
              ELSE Returned([s EXCEPT !.repo_list = Some(v)], c, 0)

\* a stage whose failure path also forgets the repository slug
list_repositories_resets_slug(s, o) ==
    IF IsNone(s.workspace) THEN Returned(s, <<>>, 0)
    ELSE IF o.kind = "ctor_raise"
    THEN Returned([s EXCEPT !.repo_list = None], <<>>, 0)
    ELSE LET c == <<Call("listRepositories", "")>> IN
         IF o.kind = "raise" \/ ~o.payload.valid
         THEN Returned([s EXCEPT !.repo_list = None, !.repo_slug = None], c, 0)
         ELSE LET v == o.payload.val IN
              IF v.t = "null" \/ (v.t = "number" /\ Truthy(v))
              THEN Returned([s EXCEPT !.repo_list = None], c, 0)
              ELSE Returned([s EXCEPT !.repo_list = Some(v)], c, 0)

list_repositories(s, o) ==
    IF IsNone(s.workspace) THEN Returned(s, <<>>, 0)
    ELSE IF o.kind = "ctor_raise"
    THEN Returned([s EXCEPT !.repo_list = None], <<>>, 0)
    ELSE LET c == <<Call("listRepositories", "")>> IN
         IF o.kind = "raise" \/ ~o.payload.valid
         THEN Returned([s EXCEPT !.repo_list = None], c, 0)
         ELSE LET v == o.payload.val IN
              \* json null is Python None; a non-zero number is truthy but
              \* supports neither iteration nor len(): TypeError, caught
              IF v.t = "null" \/ (v.t = "number" /\ Truthy(v))
              THEN Returned([s EXCEPT !.repo_list = None], c, 0)
              ELSE Returned([s EXCEPT !.repo_list = Some(v)], c, 0)

(***************************************************************************)
(* list_repo_files                                                         *)
(***************************************************************************)
\* a loop that takes any entry named web-store, directory or not
WebStoreFoundAnyType(root) ==
    /\ root.t = "dict"
    /\ root.files # "absent"
    /\ \E f \in FileEntries(root.files) : f.path = "web-store"

\* the loop over root_files["files"] that looks for the web-store directory
WebStoreFound(root) ==
    /\ root.t = "dict"
    /\ root.files # "absent"
    /\ \E f \in FileEntries(root.files) :
           f.path = "web-store" /\ f.type = "directory"

\* a stage that lists files as soon as the workspace is known
list_repo_files_without_slug(s, o1, o2) ==
    IF IsNone(s.workspace) THEN Returned(s, <<>>, 0)
    ELSE IF o1.kind = "ctor_raise"
    THEN Returned([s EXCEPT !.repo_files = None], <<>>, 0)
    ELSE LET c1 == <<Call("listRepositoryFiles", "")>>
             c2 == <<Call("listRepositoryFiles", ""),
                     Call("listRepositoryFiles", "web-store")>>
             root == o1.payload.val
         IN
         IF o1.kind = "raise" \/ ~o1.payload.valid
         THEN Returned([s EXCEPT !.repo_files = None], c1, 0)
         ELSE IF root.t = "dict" /\ root.files = "number"
         THEN Returned([s EXCEPT !.repo_files = None], c1, 0)
         ELSE IF WebStoreFound(root)
         THEN IF o2.kind # "ok" \/ ~o2.payload.valid
              THEN Returned([s EXCEPT !.repo_files = None], c2, 0)
              ELSE Returned([s EXCEPT !.repo_files =
                       Some([root |-> root,
                             web_store |-> o2.payload.val])], c2, 0)
         ELSE Returned([s EXCEPT !.repo_files = Some([root |-> root])], c1, 0)

\* a stage that keeps the root listing when the web-store call fails
list_repo_files_keeps_root(s, o1, o2) ==
    IF IsNone(s.workspace) \/ IsNone(s.repo_slug) THEN Returned(s, <<>>, 0)
    ELSE IF o1.kind = "ctor_raise"
    THEN Returned([s EXCEPT !.repo_files = None], <<>>, 0)
    ELSE LET c1 == <<Call("listRepositoryFiles", "")>>
             c2 == <<Call("listRepositoryFiles", ""),
                     Call("listRepositoryFiles", "web-store")>>
             root == o1.payload.val
         IN
         IF o1.kind = "raise" \/ ~o1.payload.valid
         THEN Returned([s EXCEPT !.repo_files = None], c1, 0)
         ELSE IF root.t = "dict" /\ root.files = "number"
         THEN Returned([s EXCEPT !.repo_files = None], c1, 0)
         ELSE IF WebStoreFound(root)
         THEN IF o2.kind # "ok" \/ ~o2.payload.valid
              THEN Returned([s EXCEPT !.repo_files = Some([root |-> root])],
                            c2, 0)
              ELSE Returned([s EXCEPT !.repo_files =
                       Some([root |-> root,
                             web_store |-> o2.payload.val])], c2, 0)
         ELSE Returned([s EXCEPT !.repo_files = Some([root |-> root])], c1, 0)

list_repo_files(s, o1, o2) ==
    IF IsNone(s.workspace) \/ IsNone(s.repo_slug) THEN Returned(s, <<>>, 0)
    ELSE IF o1.kind = "ctor_raise"
    THEN Returned([s EXCEPT !.repo_files = None], <<>>, 0)
    ELSE LET c1 == <<Call("listRepositoryFiles", "")>>
             c2 == <<Call("listRepositoryFiles", ""),
                     Call("listRepositoryFiles", "web-store")>>
             root == o1.payload.val
         IN
         IF o1.kind = "raise" \/ ~o1.payload.valid
         THEN Returned([s EXCEPT !.repo_files = None], c1, 0)
         ELSE IF root.t = "dict" /\ root.files = "number"
         THEN Returned([s EXCEPT !.repo_files = None], c1, 0)
         ELSE IF WebStoreFound(root)
         THEN IF o2.kind # "ok" \/ ~o2.payload.valid
              THEN Returned([s EXCEPT !.repo_files = None], c2, 0)
              ELSE Returned([s EXCEPT !.repo_files =
                       Some([root |-> root,
                             web_store |-> o2.payload.val])], c2, 0)
         ELSE Returned([s EXCEPT !.repo_files = Some([root |-> root])], c1, 0)

(***************************************************************************)
(* synthesize_output                                                       *)
(***************************************************************************)
ErrorPrefix == <<"E","r","r","o","r",":"," ">>
\* response.content of a successful llm.invoke, str(e) of a failed one
ResponseTexts == {<<"#"," ","I">>, <<>>}
ErrorTexts == {<<"t","i","m","e","o","u","t">>}
LlmOutcomes ==
    {[kind |-> "ok", text |-> t] : t \in ResponseTexts}
        \cup {[kind |-> "raise", text |-> t] : t \in ErrorTexts}
BuildOutcomes == {"ok", "raise"}

\* str(e) of the exception raised while the prompt is assembled
PromptErrorText == <<"N","o","n","e","T","y","p","e">>

\* assembling the prompt raises inside the try block: None.lower() for a
\* null description, iteration over a non-list "files" of the web-store listing
PromptRaises(s) ==
    \/ /\ IsSome(s.jira_issue)
       /\ Val(s.jira_issue).t = "dict"
       /\ Val(s.jira_issue).description = "null"
    \/ /\ IsSome(s.repo_files)
       /\ "web_store" \in DOMAIN Val(s.repo_files)
       /\ Val(s.repo_files).web_store.t = "dict"
       /\ Val(s.repo_files).web_store.files = "number"

\* a stage that also records the error text as an assistant turn
synthesize_output_logs_error(s, b, l) ==
    IF b = "raise" THEN Raised(s, <<>>, 0)
    ELSE IF PromptRaises(s)
    THEN Returned([s EXCEPT
             !.final_output = Some(ErrorPrefix \o PromptErrorText)], <<>>, 0)
    ELSE IF l.kind = "raise"
    THEN Returned([s EXCEPT
             !.final_output = Some(ErrorPrefix \o l.text),
             !.messages = Append(s.messages,
                                 AIMessage(ErrorPrefix \o l.text))], <<>>, 1)
    ELSE Returned([s EXCEPT
             !.final_output = Some(l.text),
             !.messages = Append(s.messages, AIMessage(l.text))], <<>>, 1)

synthesize_output(s, b, l) ==
    IF b = "raise" THEN Raised(s, <<>>, 0)  \* build_llm() precedes the try
    ELSE IF PromptRaises(s)
    THEN Returned([s EXCEPT
             !.final_output = Some(ErrorPrefix \o PromptErrorText)], <<>>, 0)
    ELSE IF l.kind = "raise"
    THEN Returned([s EXCEPT
             !.final_output = Some(ErrorPrefix \o l.text)], <<>>, 1)
    ELSE Returned([s EXCEPT
             !.final_output = Some(l.text),
             !.messages = Append(s.messages, AIMessage(l.text))], <<>>, 1)

(***************************************************************************)
(* build_graph: the compiled StateGraph                                    *)
(***************************************************************************)
Nodes == {"process_input", "fetch_jira", "extract_repo", "list_repos",
          "list_files", "synthesize"}
END == "END"
EntryPoint == "process_input"
\* the chain with one edge too many: fetch_jira also points to list_repos
EdgesFanOut ==
    { <<"process_input", "fetch_jira">>,
      <<"fetch_jira", "extract_repo">>,
      <<"fetch_jira", "list_repos">>,
      <<"extract_repo", "list_repos">>,
      <<"list_repos", "list_files">>,
      <<"list_files", "synthesize">>,
      <<"synthesize", END>> }

Edges ==
    { <<"process_input", "fetch_jira">>,
      <<"fetch_jira", "extract_repo">>,
      <<"extract_repo", "list_repos">>,
      <<"list_repos", "list_files">>,
      <<"list_files", "synthesize">>,
      <<"synthesize", END>> }
\* a graph that runs synthesize before list_files
SuccessorsSynthesizeEarly(n) ==
    IF n = "list_repos" THEN {"synthesize"}
    ELSE IF n = "synthesize" THEN {"list_files"}
    ELSE IF n = "list_files" THEN {END}
    ELSE {e[2] : e \in {d \in Edges : d[1] = n}}

Successors(n) == {e[2] : e \in {d \in Edges : d[1] = n}}

StageOrder == <<"process_input", "fetch_jira", "extract_repo", "list_repos",
                "list_files", "synthesize">>

\* The graph runs node n, which hands back r: a raise ends the invocation
\* with the exception; otherwise the nodes n points to are scheduled and the
\* invocation returns once nothing but END is left.
RunNode(n, r) ==
    /\ status = "running"
    /\ n \in active
    /\ trace' = Append(trace, n)
    /\ calls' = calls \o Issued(r.calls, env)
    /\ llmCalls' = llmCalls + r.llm
    /\ IF r.raised
       THEN /\ state' = state
            /\ active' = {}
            /\ status' = "raised"
       ELSE /\ state' = r.st
            /\ active' = (active \ {n}) \cup (Successors(n) \ {END})
            /\ status' = IF active' = {} THEN "done" ELSE "running"
    /\ UNCHANGED offPipe

\* run() / invoke_graph: a fresh AgentState, then graph.invoke
Invoke(inp) ==
    /\ status \in {"idle", "done", "raised"}
    /\ state' = InitialState(inp)
    /\ active' = {EntryPoint}
    /\ status' = "running"
    /\ trace' = <<>>
    /\ calls' = <<>>
    /\ llmCalls' = 0
    /\ llmOut' = None
    /\ lastOut' = <<>>
    /\ UNCHANGED offPipe

\* lastOut keeps the outcomes of the tool calls the node went as far as
\* making (none when its precondition sent it straight back)
ProcessInput ==
    /\ RunNode("process_input", process_input(state))
    /\ lastOut' = <<>>
    /\ UNCHANGED llmOut
FetchJira ==
    \E o \in IssueOutcomes :
        /\ RunNode("fetch_jira", fetch_jira_issue(state, o))
        /\ lastOut' = IF Len(state.jira_issue_key) = 0 THEN <<>> ELSE <<o>>
        /\ UNCHANGED llmOut
ExtractRepo ==
    /\ RunNode("extract_repo", extract_repo_info(state))
    /\ lastOut' = <<>>
    /\ UNCHANGED llmOut
ListRepos ==
    \E o \in RepoOutcomes :
        /\ RunNode("list_repos", list_repositories(state, o))
        /\ lastOut' = IF IsNone(state.workspace) THEN <<>> ELSE <<o>>
        /\ UNCHANGED llmOut
ListFiles ==
    \E o1 \in FilesOutcomes, o2 \in FilesOutcomes \ {ToolCtorRaise} :
        LET r == list_repo_files(state, o1, o2) IN
        /\ RunNode("list_files", r)
        /\ lastOut' = IF IsNone(state.workspace) \/ IsNone(state.repo_slug)
                      THEN <<>>
                      ELSE IF Len(r.calls) = 2 THEN <<o1, o2>> ELSE <<o1>>
        /\ UNCHANGED llmOut
\* llmOut keeps what llm.invoke did when synthesize_output got as far as it
Synthesize ==
    \E b \in BuildOutcomes, l \in LlmOutcomes :
        LET r == synthesize_output(state, b, l) IN
        /\ RunNode("synthesize", r)
        /\ llmOut' = IF r.llm = 1 THEN Some(l) ELSE None
        /\ lastOut' = <<>>

PipeInit ==
    /\ state = BlankState
    /\ active = {}
    /\ status = "idle"
    /\ trace = <<>>
    /\ calls = <<>>
    /\ llmCalls = 0
    /\ llmOut = None
    /\ lastOut = <<>>

PipeNext ==
    \/ \E inp \in Inputs : Invoke(inp)
    \/ ProcessInput
    \/ FetchJira
    \/ ExtractRepo
    \/ ListRepos
    \/ ListFiles
    \/ Synthesize

(***************************************************************************)
(* EventLoopSafeCrew: kickoff / kickoff_async and _refresh_agent_tools.    *)
(* Every invocation is a thread of control; its steps are the reads and    *)
(* writes of the shared adapter cache and of agent.tools.                  *)
(***************************************************************************)
MaxKickoffs == 2
Kickoffs == 1..MaxKickoffs
NumAgents == 1
Agents == 1..NumAgents

InRefresh == {"clear", "get", "assign"}

\* what the underlying crew's kickoff does
\* every caller passes its own inputs dict
InputsOf(k) == [request |-> k]
UnderOutcomes == {[kind |-> "ok", result |-> "report"], [kind |-> "raise"]}
NoResult == [kind |-> "ok", result |-> "none"]

\* kickoff_async runs _refresh_agent_tools() and enters the underlying
\* kickoff_async without awaiting in between, so on the event loop no other
\* kickoff_async runs while one is between its entry and that await
LoopBusy(k) ==
    \E j \in Kickoffs \ {k} :
        mode[j] = "async" /\ kpc[j] \in InRefresh \cup {"kick"}

\* a wrapper whose kickoff_async goes straight to the underlying kickoff
KickoffSkipsRefresh(k, m) ==
    /\ kpc[k] = "idle"
    /\ m = "async" => ~LoopBusy(k)
    /\ kpc' = [kpc EXCEPT ![k] = IF m = "async" THEN "kick" ELSE "clear"]
    /\ mode' = [mode EXCEPT ![k] = m]
    /\ held' = [held EXCEPT ![k] = agentTools]
    /\ doneBefore' = [doneBefore EXCEPT ![k] = {j \in Kickoffs : kpc[j] = "done"}]
    /\ UNCHANGED <<adapter, agentTools, nextId, live, fresh, cursor, failed,
                   used, refreshes>>
    /\ under' = [under EXCEPT ![k] =
                     [given |-> InputsOf(k), passed |-> <<>>, outcome |-> None,
                      returned |-> None]]
    /\ UNCHANGED gets
    /\ UNCHANGED offCrew

\* kickoff(inputs) / kickoff_async(inputs) is entered; its first statement
\* is self._refresh_agent_tools()
Kickoff(k, m) ==
    /\ kpc[k] = "idle"
    /\ m = "async" => ~LoopBusy(k)
    /\ kpc' = [kpc EXCEPT ![k] = "clear"]
    /\ mode' = [mode EXCEPT ![k] = m]
    /\ held' = [held EXCEPT ![k] = agentTools]
    /\ doneBefore' = [doneBefore EXCEPT ![k] = {j \in Kickoffs : kpc[j] = "done"}]
    /\ UNCHANGED <<adapter, agentTools, nextId, live, fresh, cursor, failed,
                   used, refreshes>>
    /\ under' = [under EXCEPT ![k] =
                     [given |-> InputsOf(k), passed |-> <<>>, outcome |-> None,
                      returned |-> None]]
    /\ UNCHANGED gets
    /\ UNCHANGED offCrew

\* a refresh that leaves the cached adapter in place
ClearCacheKeepsAdapter(k) ==
    /\ kpc[k] = "clear"
    /\ adapter' = adapter
    /\ kpc' = [kpc EXCEPT ![k] = "get"]
    /\ UNCHANGED <<agentTools, nextId, live, mode, fresh, cursor, failed,
                   held, used, doneBefore, refreshes>>
    /\ UNCHANGED <<gets, under>>
    /\ UNCHANGED offCrew

\* crew_base._mcp_server_adapter = None; the old adapter is not stopped
ClearCache(k) ==
    /\ kpc[k] = "clear"
    /\ adapter' = 0
    /\ kpc' = [kpc EXCEPT ![k] = "get"]
    /\ UNCHANGED <<agentTools, nextId, live, mode, fresh, cursor, failed,
                   held, used, doneBefore, refreshes>>
    /\ UNCHANGED <<gets, under>>
    /\ UNCHANGED offCrew

\* an except clause that also empties the agents' tools
OnRefreshErrorDropsTools(k) ==
    /\ failed' = [failed EXCEPT ![k] = TRUE]
    /\ kpc' = [kpc EXCEPT ![k] = "kick"]
    /\ refreshes' = [refreshes EXCEPT ![k] = @ + 1]
    /\ agentTools' = [g \in Agents |-> 0]
    /\ UNCHANGED <<adapter, nextId, live, fresh, cursor>>

\* the except clause of the refresh: log, keep the existing tools, return
OnRefreshError(k) ==
    /\ failed' = [failed EXCEPT ![k] = TRUE]
    /\ kpc' = [kpc EXCEPT ![k] = "kick"]
    /\ refreshes' = [refreshes EXCEPT ![k] = @ + 1]
    /\ UNCHANGED <<adapter, agentTools, nextId, live, fresh, cursor>>

\* a refresh that calls get_mcp_tools() again after a failure
GetToolsRetrying(k) ==
    /\ kpc[k] = "get"
    /\ IF adapter = 0
       THEN \/ /\ adapter' = nextId
               /\ nextId' = nextId + 1
               /\ live' = live \cup {nextId}
               /\ fresh' = [fresh EXCEPT ![k] = nextId]
               /\ cursor' = [cursor EXCEPT ![k] = 1]
               /\ kpc' = [kpc EXCEPT ![k] = "assign"]
               /\ UNCHANGED <<agentTools, failed, refreshes>>
            \/ IF gets[k] = 0
               THEN UNCHANGED <<adapter, agentTools, nextId, live, fresh,
                                cursor, kpc, failed, refreshes>>
               ELSE OnRefreshError(k)
       ELSE /\ fresh' = [fresh EXCEPT ![k] = adapter]
            /\ cursor' = [cursor EXCEPT ![k] = 1]
            /\ kpc' = [kpc EXCEPT ![k] = "assign"]
            /\ UNCHANGED <<adapter, agentTools, nextId, live, failed, refreshes>>
    /\ UNCHANGED <<mode, held, used, doneBefore>>
    /\ gets' = [gets EXCEPT ![k] = @ + 1]
    /\ UNCHANGED under
    /\ UNCHANGED offCrew

\* fresh_tools = crew_base.get_mcp_tools(): with no cached adapter a new one
\* is created (and cached) or the creation raises; a cached adapter's tools
\* are returned as they are
GetTools(k) ==
    /\ kpc[k] = "get"
    /\ IF adapter = 0
       THEN \/ /\ adapter' = nextId
               /\ nextId' = nextId + 1
               /\ live' = live \cup {nextId}
               /\ fresh' = [fresh EXCEPT ![k] = nextId]
               /\ cursor' = [cursor EXCEPT ![k] = 1]
               /\ kpc' = [kpc EXCEPT ![k] = "assign"]
               /\ UNCHANGED <<agentTools, failed, refreshes>>
            \/ OnRefreshError(k)
       ELSE /\ fresh' = [fresh EXCEPT ![k] = adapter]
            /\ cursor' = [cursor EXCEPT ![k] = 1]
            /\ kpc' = [kpc EXCEPT ![k] = "assign"]
            /\ UNCHANGED <<adapter, agentTools, nextId, live, failed, refreshes>>
    /\ UNCHANGED <<mode, held, used, doneBefore>>
    /\ gets' = [gets EXCEPT ![k] = @ + 1]
    /\ UNCHANGED under
    /\ UNCHANGED offCrew

\* one iteration of "for agent in self._crew.agents: agent.tools = fresh_tools"
AssignTools(k) ==
    /\ kpc[k] = "assign"
    /\ agentTools' = [agentTools EXCEPT ![cursor[k]] = fresh[k]]
    /\ IF cursor[k] = NumAgents
       THEN /\ kpc' = [kpc EXCEPT ![k] = "kick"]
            /\ refreshes' = [refreshes EXCEPT ![k] = @ + 1]
            /\ UNCHANGED cursor
       ELSE /\ cursor' = [cursor EXCEPT ![k] = @ + 1]
            /\ UNCHANGED <<kpc, refreshes>>
    /\ UNCHANGED <<adapter, nextId, live, mode, fresh, failed, held, used,
                   doneBefore>>
    /\ UNCHANGED <<gets, under>>
    /\ UNCHANGED offCrew

\* self._crew.kickoff(inputs=inputs) starts with the tools the agents hold
StartUnderlying(k) ==
    /\ kpc[k] = "kick"
    /\ kpc' = [kpc EXCEPT ![k] = "running"]
    /\ used' = [used EXCEPT ![k] = agentTools]
    /\ UNCHANGED <<adapter, agentTools, nextId, live, mode, fresh, cursor,
                   failed, held, doneBefore, refreshes>>
    /\ under' = [under EXCEPT ![k].passed = Append(@, under[k].given)]
    /\ UNCHANGED gets
    /\ UNCHANGED offCrew

\* a wrapper that logs an exception of the underlying kickoff and returns
FinishUnderlyingSwallows(k) ==
    /\ kpc[k] = "running"
    /\ kpc' = [kpc EXCEPT ![k] = "done"]
    /\ \E o \in UnderOutcomes :
           under' = [under EXCEPT ![k].outcome = Some(o),
                                  ![k].returned =
                                      IF o.kind = "raise" THEN Some(NoResult)
                                      ELSE Some(o)]
    /\ UNCHANGED gets
    /\ UNCHANGED <<adapter, agentTools, nextId, live, mode, fresh, cursor,
                   failed, held, used, doneBefore, refreshes>>
    /\ UNCHANGED offCrew

\* "return self._crew.kickoff(inputs=inputs, **kwargs)": the invocation ends
\* with what the underlying kickoff did, its result or its exception
FinishUnderlying(k) ==
    /\ kpc[k] = "running"
    /\ kpc' = [kpc EXCEPT ![k] = "done"]
    /\ \E o \in UnderOutcomes :
           under' = [under EXCEPT ![k].outcome = Some(o),
                                  ![k].returned = Some(o)]
    /\ UNCHANGED gets
    /\ UNCHANGED <<adapter, agentTools, nextId, live, mode, fresh, cursor,
                   failed, held, used, doneBefore, refreshes>>
    /\ UNCHANGED offCrew

\* an adapter nothing refers to any more
Unreferenced(a) ==
    /\ a # adapter
    /\ \A g \in Agents : agentTools[g] # a
    /\ \A k \in Kickoffs : kpc[k] = "assign" => fresh[k] # a
    /\ \A k \in Kickoffs : kpc[k] = "running" => \A g \in Agents : used[k][g] # a

\* "Python's garbage collector will handle cleanup when it's no longer
\* referenced": an unreferenced adapter may be collected at any later time
CollectGarbage(a) ==
    /\ a \in live
    /\ Unreferenced(a)
    /\ live' = live \ {a}
    /\ UNCHANGED <<adapter, agentTools, nextId, kpc, mode, fresh, cursor,
                   failed, held, used, doneBefore, refreshes>>
    /\ UNCHANGED <<gets, under>>
    /\ UNCHANGED offCrew

\* TechLeadCrew().crew(): the agent was built with the tools of the first
\* adapter, which CrewBase caches
CrewInit ==
    /\ adapter = 1
    /\ agentTools = [g \in Agents |-> 1]
    /\ nextId = 2
    /\ live = {1}
    /\ kpc = [k \in Kickoffs |-> "idle"]
    /\ mode = [k \in Kickoffs |-> "sync"]
    /\ fresh = [k \in Kickoffs |-> 0]
    /\ cursor = [k \in Kickoffs |-> 1]
    /\ failed = [k \in Kickoffs |-> FALSE]
    /\ held = [k \in Kickoffs |-> [g \in Agents |-> 0]]
    /\ used = [k \in Kickoffs |-> [g \in Agents |-> 0]]
    /\ doneBefore = [k \in Kickoffs |-> {}]
    /\ refreshes = [k \in Kickoffs |-> 0]
    /\ gets = [k \in Kickoffs |-> 0]
    /\ under = [k \in Kickoffs |->
                   [given |-> InputsOf(k), passed |-> <<>>, outcome |-> None,
                    returned |-> None]]

CrewSteps ==
    \/ \E k \in Kickoffs : ClearCache(k)
    \/ \E k \in Kickoffs : GetTools(k)
    \/ \E k \in Kickoffs : AssignTools(k)
    \/ \E k \in Kickoffs : StartUnderlying(k)
    \/ \E k \in Kickoffs : FinishUnderlying(k)
    \/ \E a \in live : CollectGarbage(a)

\* invocations arrive at any time, from any thread
CrewNext ==
    \/ \E k \in Kickoffs, m \in {"sync", "async"} : Kickoff(k, m)
    \/ CrewSteps

\* back-to-back invocations: one is entered only when none is in progress
NoneInProgress == \A j \in Kickoffs : kpc[j] \in {"idle", "done"}
SeqCrewNext ==
    \/ \E k \in Kickoffs, m \in {"sync", "async"} : NoneInProgress /\ Kickoff(k, m)
    \/ CrewSteps

(***************************************************************************)
(* TechLeadCrew.tech_lead_crew(): the endpoint check and the loop that     *)
(* loads the MCP tools.  The first agent built is the one crew() puts in   *)
(* the Crew; kickoffs start once that Crew exists.                         *)
(***************************************************************************)
MaxBuilds == 2
max_retries == 3
retry_delay == 2

\* what get_mcp_tools() hands back: the tools the two servers list, which
\* may be none
ServerTools == <<"jira_get_issue", "listRepositories", "listRepositoryFiles">>
ToolLists == {<<>>, ServerTools}

\* a backoff that does not grow
WaitTimeFlat(a) == retry_delay

\* wait_time = retry_delay * (2 ** attempt)
WaitTime(a) == retry_delay * (2 ^ a)

\* tech_lead_crew() is entered: the two URLs are read from the environment
Establish ==
    /\ bpc # "attempt"
    /\ builds < MaxBuilds
    /\ NoneInProgress
    /\ builds' = builds + 1
    /\ attempt' = 0
    /\ tries' = 0
    /\ fails' = 0
    /\ waits' = <<>>
    /\ mcp_tools' = <<>>
    /\ bpc' = IF IsNone(env.JIRA_MCP_URL) \/ IsNone(env.BITBUCKET_MCP_URL)
              THEN "ValueError" ELSE "attempt"
    /\ UNCHANGED <<crewBuilt, crewVars, pipeVars, env, runVars, toolVars>>

\* a loop whose last failure hands the agent the tools the crew still holds
AttemptFallsBack ==
    /\ bpc = "attempt"
    /\ tries' = tries + 1
    /\ \/ /\ IF adapter = 0
             THEN /\ adapter' = nextId
                  /\ nextId' = nextId + 1
                  /\ live' = live \cup {nextId}
             ELSE UNCHANGED <<adapter, nextId, live>>
          /\ bpc' = "agent"
          /\ \E ts \in ToolLists : mcp_tools' = ts
          /\ IF crewBuilt
             THEN UNCHANGED <<agentTools, crewBuilt>>
             ELSE /\ agentTools' = [g \in Agents |-> adapter']
                  /\ crewBuilt' = TRUE
          /\ UNCHANGED <<attempt, fails, waits>>
       \/ /\ adapter = 0
          /\ fails' = fails + 1
          /\ IF attempt < max_retries - 1
             THEN /\ waits' = Append(waits, WaitTime(attempt))
                  /\ attempt' = attempt + 1
                  /\ bpc' = bpc
             ELSE /\ bpc' = IF \E g \in Agents : agentTools[g] # 0
                            THEN "agent" ELSE "RuntimeError"
                  /\ UNCHANGED <<attempt, waits>>
          /\ UNCHANGED <<adapter, nextId, live, agentTools, crewBuilt,
                         mcp_tools>>
    /\ UNCHANGED <<kpc, mode, fresh, cursor, failed, held, used, doneBefore,
                   refreshes, gets, under, builds>>
    /\ UNCHANGED <<pipeVars, env, runVars, toolVars>>

\* one iteration of "for attempt in range(max_retries)": get_mcp_tools()
\* returns (break, the agent is built with what it returned) or raises
\* (sleep and go round again, or RuntimeError after the last attempt)
Attempt ==
    /\ bpc = "attempt"
    /\ tries' = tries + 1
    /\ \/ /\ IF adapter = 0
             THEN /\ adapter' = nextId
                  /\ nextId' = nextId + 1
                  /\ live' = live \cup {nextId}
             ELSE UNCHANGED <<adapter, nextId, live>>
          /\ bpc' = "agent"
          /\ \E ts \in ToolLists : mcp_tools' = ts
          /\ IF crewBuilt
             THEN UNCHANGED <<agentTools, crewBuilt>>
             ELSE /\ agentTools' = [g \in Agents |-> adapter']
                  /\ crewBuilt' = TRUE
          /\ UNCHANGED <<attempt, fails, waits>>
       \/ /\ adapter = 0
          /\ fails' = fails + 1
          /\ IF attempt < max_retries - 1
             THEN /\ waits' = Append(waits, WaitTime(attempt))
                  /\ attempt' = attempt + 1
                  /\ bpc' = bpc
             ELSE /\ bpc' = "RuntimeError"
                  /\ UNCHANGED <<attempt, waits>>
          /\ UNCHANGED <<adapter, nextId, live, agentTools, crewBuilt,
                         mcp_tools>>
    /\ UNCHANGED <<kpc, mode, fresh, cursor, failed, held, used, doneBefore,
                   refreshes, gets, under, builds>>
    /\ UNCHANGED <<pipeVars, env, runVars, toolVars>>

\* a TechLeadCrew on which tech_lead_crew() has not been called
NoCrewYet ==
    /\ adapter = 0
    /\ agentTools = [g \in Agents |-> 0]
    /\ nextId = 1
    /\ live = {}
    /\ kpc = [k \in Kickoffs |-> "idle"]
    /\ mode = [k \in Kickoffs |-> "sync"]
    /\ fresh = [k \in Kickoffs |-> 0]
    /\ cursor = [k \in Kickoffs |-> 1]
    /\ failed = [k \in Kickoffs |-> FALSE]
    /\ held = [k \in Kickoffs |-> [g \in Agents |-> 0]]
    /\ used = [k \in Kickoffs |-> [g \in Agents |-> 0]]
    /\ doneBefore = [k \in Kickoffs |-> {}]
    /\ refreshes = [k \in Kickoffs |-> 0]
    /\ gets = [k \in Kickoffs |-> 0]
    /\ under = [k \in Kickoffs |->
                   [given |-> InputsOf(k), passed |-> <<>>, outcome |-> None,
                    returned |-> None]]
    /\ bpc = "none"
    /\ attempt = 0
    /\ tries = 0
    /\ fails = 0
    /\ waits = <<>>
    /\ builds = 0
    /\ crewBuilt = FALSE
    /\ mcp_tools = <<>>

\* tech_lead_crew() returned the agent after one successful attempt
AgentBuilt ==
    /\ bpc = "agent"
    /\ attempt = 0
    /\ tries = 1
    /\ fails = 0
    /\ waits = <<>>
    /\ builds = 1
    /\ crewBuilt = TRUE
    /\ mcp_tools = ServerTools

\* the crew over its life: built, kicked off, tech_lead_crew() called again
BuildNext ==
    \/ Establish
    \/ Attempt
    \/ \E k \in Kickoffs, m \in {"sync", "async"} :
           crewBuilt /\ bpc # "attempt" /\ NoneInProgress /\ Kickoff(k, m)
    \/ CrewSteps

(***************************************************************************)
(* Several graph.invoke calls in flight on one compiled graph (the         *)
(* module-level graph of main.py's invoke_graph).  Every call threads the  *)
(* dict it was given through the nodes.                                    *)
(***************************************************************************)
MaxRuns == 2
Runs == 1..MaxRuns

RunInputs ==
    {[present |-> TRUE, key |-> <<"A","B","-","1">>],
     [present |-> TRUE, key |-> <<>>]}
\* what the tools, build_llm and the client do during one run: all succeed,
\* or the tool calls, or build_llm, or llm.invoke raise
LlmOk == [kind |-> "ok", text |-> <<>>]
LlmRaise == [kind |-> "raise", text |-> <<"t","i","m","e","o","u","t">>]
RunOutcomes ==
    {[tool |-> "ok", build |-> "ok", llm |-> LlmOk],
     [tool |-> "raise", build |-> "ok", llm |-> LlmOk],
     [tool |-> "ok", build |-> "raise", llm |-> LlmOk],
     [tool |-> "ok", build |-> "ok", llm |-> LlmRaise]}
RunIssue == ToolOk(JsonText(TRUE, IssueDict("urlA", "absent", "absent")))
RunRepos ==
    ToolOk(JsonText(TRUE, [t |-> "list", empty |-> FALSE, slugs |-> {"REPOA"}]))
RunFiles == ToolOk(JsonText(TRUE, [t |-> "dict", files |-> "plain"]))

\* what synthesize_output puts into the prompt
Prompt(s) ==
    [issue_key |-> s.jira_issue_key, issue |-> s.jira_issue,
     workspace |-> s.workspace, repo_slug |-> s.repo_slug,
     repo_files |-> s.repo_files]
Mark(b) == IF b THEN "1" ELSE "0"
\* a deterministic client: its answer tells which parts the prompt had
StubGenerate(p) ==
    <<Mark(IsSome(p.issue)), Mark(IsSome(p.workspace)),
      Mark(IsSome(p.repo_slug)), Mark(IsSome(p.repo_files))>>

\* the node function the compiled graph calls for node n
RunStage(n, s, o) ==
    CASE n = "process_input" -> process_input(s)
      [] n = "fetch_jira" ->
            fetch_jira_issue(s, IF o.tool = "ok" THEN RunIssue ELSE ToolRaise)
      [] n = "extract_repo" -> extract_repo_info(s)
      [] n = "list_repos" ->
            list_repositories(s, IF o.tool = "ok" THEN RunRepos ELSE ToolRaise)
      [] n = "list_files" ->
            list_repo_files(s, IF o.tool = "ok" THEN RunFiles ELSE ToolRaise,
                            ToolRaise)
      [] n = "synthesize" ->
            synthesize_output(s, o.build,
                IF o.llm.kind = "ok"
                THEN [kind |-> "ok", text |-> StubGenerate(Prompt(s))]
                ELSE o.llm)

\* one dict shared by every invocation
SharedDict(ds) == 1

\* initial_state = {...}: every invocation evaluates its own dict literal
NewDict(ds) == Len(ds) + 1

\* invoke_graph(input_data) / run(inputs): initial_state, graph.invoke
RunInvoke(r, inp, o) ==
    /\ runAt[r] = "idle"
    /\ \A q \in Runs : q < r => runAt[q] # "idle"  \* numbered as they arrive
    /\ LET i == NewDict(dicts) IN
       /\ dicts' = IF i > Len(dicts) THEN Append(dicts, InitialState(inp))
                   ELSE [dicts EXCEPT ![i] = InitialState(inp)]
       /\ runDict' = [runDict EXCEPT ![r] = i]
    /\ runAt' = [runAt EXCEPT ![r] = EntryPoint]
    /\ runGiven' = [runGiven EXCEPT ![r] = [inp |-> inp, out |-> o]]
    /\ UNCHANGED runResult
    /\ UNCHANGED <<pipeVars, env, crewVars, buildVars, toolVars>>

\* run r executes its next node on its dict; graph.invoke returns the state
\* once the node that points to END has run
RunStep(r) ==
    /\ runAt[r] \in Nodes
    /\ LET res == RunStage(runAt[r], dicts[runDict[r]], runGiven[r].out)
           next == CHOOSE m \in Successors(runAt[r]) : TRUE
       IN
       IF res.raised
       THEN /\ runAt' = [runAt EXCEPT ![r] = "raised"]
            /\ UNCHANGED <<dicts, runResult>>
       ELSE /\ runAt' = [runAt EXCEPT ![r] = next]
            /\ dicts' = [dicts EXCEPT ![runDict[r]] = res.st]
            /\ runResult' = IF next = END
                            THEN [runResult EXCEPT ![r] = res.st.final_output]
                            ELSE runResult
    /\ UNCHANGED <<runDict, runGiven>>
    /\ UNCHANGED <<pipeVars, env, crewVars, buildVars, toolVars>>

RunInit ==
    /\ dicts = <<>>
    /\ runDict = [r \in Runs |-> 0]
    /\ runAt = [r \in Runs |-> "idle"]
    /\ runGiven = [r \in Runs |->
                      [inp |-> [present |-> FALSE, key |-> <<>>],
                       out |-> CHOOSE o \in RunOutcomes : TRUE]]
    /\ runResult = [r \in Runs |-> None]

RunNext ==
    \/ \E r \in Runs, inp \in RunInputs, o \in RunOutcomes : RunInvoke(r, inp, o)
    \/ \E r \in Runs : RunStep(r)

(***************************************************************************)
(* mcp_tools.MCPLangChainTool: one _run is asyncio.run(_arun): a session    *)
(* is entered, call_tool is awaited, the result is turned into text, the   *)
(* session is left.  graph.MCPToolWrapper: call() on a cached client.      *)
(***************************************************************************)
MaxToolCalls == 2
MaxWrapperCalls == 3

\* the text of a result: whether its trimmed form starts with "{" or "[",
\* whether json.loads accepts it, the value it decodes to, and whether it is
\* the server's text ("raw") or the output of json.dumps(.., indent=2)
Text(looks, valid, v, form) ==
    [looks |-> looks, valid |-> valid, val |-> v, form |-> form]
ObjectVal == [t |-> "dict"]
NumberVal == [t |-> "number"]
\* json.dumps(value, indent=2)
Dumps(v) == Text(v.t \in {"dict", "list"}, TRUE, v, "indent2")

\* what client.call_tool does: it raises, or hands back a CallToolResult
\* with text content, a dict, a str, or some other object
ServerTexts ==
    { Text(TRUE, TRUE, ObjectVal, "raw"),     \* {"key": "AB-1"}
      Text(TRUE, FALSE, NoVal, "raw"),        \* {oops
      Text(FALSE, TRUE, NumberVal, "raw"),    \* 42
      Text(FALSE, FALSE, NoVal, "raw") }      \* Error: not found
CallResults ==
    {[kind |-> "fail"]}
        \cup {[kind |-> "content", text |-> t] : t \in ServerTexts}
        \cup {[kind |-> "dict", val |-> ObjectVal]}
        \cup {[kind |-> "str", text |-> t] :
                  t \in {Text(TRUE, TRUE, ObjectVal, "raw"),
                         Text(FALSE, FALSE, NoVal, "raw")}}
        \cup {[kind |-> "other", val |-> NumberVal]}
OpenFailed == [kind |-> "open_failed"]

RaisesToCaller == [kind |-> "raise"]
Gives(t) == [kind |-> "ok", text |-> t]

\* an adapter that hands back an empty text when the call fails
arun_returns_empty(r) ==
    IF r.kind \in {"open_failed", "fail"}
    THEN Gives(Text(FALSE, FALSE, NoVal, "raw"))
    ELSE IF r.kind = "content"
    THEN IF r.text.looks /\ r.text.valid THEN Gives(Dumps(r.text.val))
         ELSE Gives(r.text)
    ELSE IF r.kind = "str"
    THEN IF r.text.valid THEN Gives(Dumps(r.text.val)) ELSE Gives(r.text)
    ELSE Gives(Dumps(r.val))

\* _arun: what the caller of _run gets for what the session did
arun(r) ==
    IF r.kind \in {"open_failed", "fail"} THEN RaisesToCaller
    ELSE IF r.kind = "content"
    THEN IF r.text.looks /\ r.text.valid THEN Gives(Dumps(r.text.val))
         ELSE Gives(r.text)
    ELSE IF r.kind = "str"
    THEN IF r.text.valid THEN Gives(Dumps(r.text.val)) ELSE Gives(r.text)
    ELSE Gives(Dumps(r.val))

\* a stage calls tool._run(..)
ToolRun ==
    /\ tpc = "idle"
    /\ Len(toolRet) < MaxToolCalls
    /\ tpc' = "open"
    /\ UNCHANGED <<sess, wire, toolRet, client, clients, wlog>>
    /\ UNCHANGED <<pipeVars, env, crewVars, buildVars, runVars>>

\* "async with Client(self.mcp_url) as client": the session is entered, or
\* entering raises and _arun re-raises
OpenSession ==
    /\ tpc = "open"
    /\ \/ /\ sess' = Append(sess, [open |-> TRUE, calls |-> 0])
          /\ tpc' = "call"
          /\ UNCHANGED toolRet
       \/ /\ toolRet' = Append(toolRet, [did |-> OpenFailed,
                                         out |-> arun(OpenFailed)])
          /\ tpc' = "idle"
          /\ UNCHANGED sess
    /\ UNCHANGED <<wire, client, clients, wlog>>
    /\ UNCHANGED <<pipeVars, env, crewVars, buildVars, runVars>>

\* "result = await client.call_tool(self.mcp_tool_name, kwargs)"
CallTool ==
    /\ tpc = "call"
    /\ \E r \in CallResults : wire' = Some(r)
    /\ sess' = [sess EXCEPT ![Len(sess)].calls = @ + 1]
    /\ tpc' = "exit"
    /\ UNCHANGED <<toolRet, client, clients, wlog>>
    /\ UNCHANGED <<pipeVars, env, crewVars, buildVars, runVars>>

\* a context manager that is left open when the call raised
CloseSessionOnSuccess ==
    /\ tpc = "exit"
    /\ sess' = [sess EXCEPT ![Len(sess)].open = (Val(wire).kind = "fail")]
    /\ toolRet' = Append(toolRet, [did |-> Val(wire), out |-> arun(Val(wire))])
    /\ wire' = None
    /\ tpc' = "idle"
    /\ UNCHANGED <<client, clients, wlog>>
    /\ UNCHANGED <<pipeVars, env, crewVars, buildVars, runVars>>

\* the return or raise leaves the "async with" block: the session is closed
\* and _run gives its caller the text or the exception
CloseSession ==
    /\ tpc = "exit"
    /\ sess' = [sess EXCEPT ![Len(sess)].open = FALSE]
    /\ toolRet' = Append(toolRet, [did |-> Val(wire), out |-> arun(Val(wire))])
    /\ wire' = None
    /\ tpc' = "idle"
    /\ UNCHANGED <<client, clients, wlog>>
    /\ UNCHANGED <<pipeVars, env, crewVars, buildVars, runVars>>

\* MCPToolWrapper.call(**kwargs): _get_client() builds and enters a Client
\* when none is cached, then call_tool is awaited on the cached one
WrapperCall ==
    /\ Len(wlog) < MaxWrapperCalls
    /\ IF IsNone(client)
       THEN \/ /\ wlog' = Append(wlog, "Client() raised")
               /\ UNCHANGED <<client, clients>>
            \/ /\ clients' = Append(clients, [entered |-> FALSE, calls |-> 0])
               /\ client' = Some(Len(clients) + 1)
               /\ wlog' = Append(wlog, "__aenter__ raised")
            \/ /\ clients' = Append(clients, [entered |-> TRUE, calls |-> 1])
               /\ client' = Some(Len(clients) + 1)
               /\ wlog' = Append(wlog, "call_tool")
       ELSE /\ clients' = [clients EXCEPT ![Val(client)].calls = @ + 1]
            /\ wlog' = Append(wlog, "call_tool")
            /\ UNCHANGED client
    /\ UNCHANGED <<tpc, sess, wire, toolRet>>
    /\ UNCHANGED <<pipeVars, env, crewVars, buildVars, runVars>>

\* no _run has been made, the wrapper was just constructed
ToolInit ==
    /\ tpc = "idle"
    /\ sess = <<>>
    /\ wire = None
    /\ toolRet = <<>>
    /\ client = None
    /\ clients = <<>>
    /\ wlog = <<>>

ToolNext ==
    \/ ToolRun
    \/ OpenSession
    \/ CallTool
    \/ CloseSession
    \/ WrapperCall

(***************************************************************************)
(* Specifications                                                          *)
(***************************************************************************)
\* the pipeline starts with both endpoint URLs in the environment or neither
NoEnv == [JIRA_MCP_URL |-> None, BITBUCKET_MCP_URL |-> None]
Init ==
    /\ PipeInit /\ CrewInit /\ AgentBuilt /\ RunInit /\ ToolInit
    /\ env \in {FullEnv, NoEnv}

\* the items callers of graph.invoke put in state["messages"]: message
\* objects, (type, content) tuples, tuples of other lengths, plain strings
MaxMessages == 2
Hello == <<"h", "i">>
KeyText == <<"A", "B", "-", "1">>
MessageItems ==
    {HumanMessage(Hello), AIMessage(KeyText)}
        \cup {[form |-> "tuple2", role |-> r, content |-> KeyText] :
                   r \in {"human", "user", "ai", "assistant", "system"}}
        \cup {[form |-> "tuple", items |-> t] :
                   t \in {<<>>, <<Hello>>, <<Hello, KeyText, Hello>>}}
        \cup {[form |-> "str", content |-> KeyText]}
MessageLists ==
    UNION {[1..n -> MessageItems] : n \in 0..MaxMessages}

\* graph.invoke was handed an AgentState whose messages are such items
NormInit ==
    /\ \E ms \in MessageLists : state = [BlankState EXCEPT !.messages = ms]
    /\ active = {EntryPoint}
    /\ status = "running"
    /\ trace = <<>>
    /\ calls = <<>>
    /\ llmCalls = 0
    /\ llmOut = None
    /\ lastOut = <<>>
    /\ CrewInit /\ AgentBuilt /\ RunInit /\ ToolInit /\ env = FullEnv

\* process_input on those states
NormSpec == NormInit /\ [][ProcessInput]_vars

\* a process started with both endpoint URLs in its environment
Configured == Init /\ env = FullEnv

Next == PipeNext

\* the LangGraph pipeline
Spec == Init /\ [][Next]_vars

\* the pipeline with the graph's scheduling: a scheduled node is run
FairSpec ==
    /\ Spec
    /\ WF_vars(ProcessInput) /\ WF_vars(FetchJira) /\ WF_vars(ExtractRepo)
    /\ WF_vars(ListRepos) /\ WF_vars(ListFiles) /\ WF_vars(Synthesize)

\* the CrewAI wrapper under concurrent invocations
CrewSpec == Configured /\ [][CrewNext]_vars

\* the CrewAI wrapper under back-to-back invocations
SeqCrewSpec == Configured /\ [][SeqCrewNext]_vars

\* a TechLeadCrew from its construction on
BuildInit == PipeInit /\ NoCrewYet /\ RunInit /\ ToolInit /\ env \in Envs
BuildSpec == BuildInit /\ [][BuildNext]_vars

\* concurrent invocations of the compiled graph
RunSpec == Configured /\ [][RunNext]_vars

\* the tool adapter and the client wrapper
ToolSpec == Configured /\ [][ToolNext]_vars

(***************************************************************************)
(* Claims                                                                  *)
(***************************************************************************)
IsPrefix(a, b) == Len(a) <= Len(b) /\ \A i \in 1..Len(a) : a[i] = b[i]

\* C1: in every pipeline run the nodes executed so far are an initial part of
\* process_input, fetch_jira, extract_repo, list_repos, list_files,
\* synthesize (so each runs at most once and in that order); while the run is
\* in progress exactly one node is scheduled, the next one of that order; a
\* run that has ended has executed all six, the last being synthesize.
C1_FixedLinearChain ==
    /\ IsPrefix(trace, StageOrder)
    /\ Cardinality(active) <= 1
    /\ status = "running" =>
           Len(trace) < Len(StageOrder) /\ active = {StageOrder[Len(trace) + 1]}
    /\ status \in {"done", "raised"} => trace = StageOrder /\ active = {}
C1_Witness == status = "done" /\ trace = StageOrder /\ Len(calls) = 4

\* C2: no node raises to the graph, whatever a tool call, the prompt assembly,
\* the llm call or the construction of a client does.
C2_NoStageRaises == status # "raised"

\* C3: every started run reaches DONE (graph.invoke returns), and
\* final_output is non-null exactly in the state of a run that is at DONE.
C3_RunReachesDone ==
    /\ [](IsSome(state.final_output) <=> status = "done")
    /\ (status = "running") ~> (status = "done")

\* a step of one of the four data-gathering nodes on an empty issue_key
\* leaves the state as it was and issues no tool call
EmptyKeyNoOp ==
    (/\ Len(trace) \in 1..4
     /\ Len(state.jira_issue_key) = 0
     /\ Len(trace') = Len(trace) + 1)
        => (state' = state /\ calls' = calls /\ calls = <<>>)

\* C4: when issue_key is empty after process_input, the four data-gathering
\* nodes return the state as they got it and issue no tool call, and once
\* synthesize has run final_output is set.
C4_EmptyKeyDegrades ==
    /\ [][EmptyKeyNoOp]_vars
    /\ [](Len(trace) = 6 /\ Len(state.jira_issue_key) = 0
              => IsSome(state.final_output))

\* C5: an invocation, kickoff or kickoff_async, first or later, is inside the
\* underlying kickoff only after exactly one call of _refresh_agent_tools of
\* its own has returned; while that call is running the underlying kickoff
\* has not started.
C5_RefreshBeforeKickoff ==
    \A k \in Kickoffs :
        /\ kpc[k] \in {"kick", "running", "done"} => refreshes[k] = 1
        /\ kpc[k] \in {"idle", "clear", "get", "assign"} => refreshes[k] = 0
C5_Witness ==
    \E k \in Kickoffs, j \in Kickoffs :
        /\ j \in doneBefore[k] /\ mode[j] = "sync" /\ refreshes[j] = 1
        /\ mode[k] = "async" /\ kpc[k] = "running" /\ refreshes[k] = 1

C7_FreshToolsEveryRun ==
    \A k1 \in Kickoffs, k2 \in Kickoffs :
        (/\ k1 \in doneBefore[k2]
         /\ ~failed[k1] /\ ~failed[k2]
         /\ kpc[k2] \in {"running", "done"})
            => \A g \in Agents : used[k2][g] # used[k1][g]
C7_Witness ==
    \E k1 \in Kickoffs, k2 \in Kickoffs :
        /\ k1 \in doneBefore[k2]
        /\ ~failed[k1] /\ ~failed[k2]
        /\ kpc[k2] = "running"
        /\ \A g \in Agents : used[k1][g] = 2 /\ used[k2][g] = 3

\* the cached adapter has been discarded or replaced by a refresh that has
\* not yet handed its tools to every agent
HalfReplaced ==
    /\ \E j \in Kickoffs : kpc[j] \in {"get", "assign"}
    /\ \E g \in Agents : agentTools[g] # adapter

\* C8: no invocation is inside the underlying kickoff while the handle set
\* is half replaced.
C8_AtomicSwap ==
    \A k \in Kickoffs : kpc[k] = "running" => ~HalfReplaced

\* C9: at most one invocation at a time is between discarding the cached
\* adapter and the last assignment of the fresh tools.
C9_MutualExclusion ==
    Cardinality({k \in Kickoffs : kpc[k] \in {"get", "assign"}}) <= 1

\* C10: at every moment exactly one adapter (one session per MCP server) is
\* live.
C10_OneLiveSession == Cardinality(live) = 1

C13_AgentDespiteFailures ==
    (bpc # "attempt" /\ fails = max_retries) => bpc = "agent"

(***************************************************************************)
(* Endpoints, synthesize and the frame of every stage                      *)
(***************************************************************************)
\* C14: no tool call goes to a default endpoint; with a URL missing from the
\* environment nothing is called at localhost in its place.
C14_NoDefaultEndpoint ==
    \A i \in 1..Len(calls) :
        calls[i].url \notin {JiraDefaultUrl, BitbucketDefaultUrl}

\* C15: a run whose synthesize stage has returned has called llm.invoke
\* exactly once, whatever the earlier stages left in the state.
C15_SynthesizeCallsClientOnce == status = "done" => llmCalls = 1

Last(q) == q[Len(q)]
StageRan(n) == Len(trace') = Len(trace) + 1 /\ Last(trace') = n

\* C16: when llm.invoke returns, final_output is the response text and
\* messages is the former messages plus one assistant turn with that text;
\* when it raises, final_output is "Error: " followed by str(e), messages is
\* as before, and the stage returns instead of raising.
C16_SynthesizeResult ==
    [][(StageRan("synthesize") /\ IsSome(llmOut')) =>
          /\ status' = "done"
          /\ IF Val(llmOut').kind = "ok"
             THEN /\ state'.final_output = Some(Val(llmOut').text)
                  /\ state'.messages =
                        Append(state.messages, AIMessage(Val(llmOut').text))
             ELSE /\ state'.final_output =
                        Some(ErrorPrefix \o Val(llmOut').text)
                  /\ state'.messages = state.messages]_vars
C16_Witness ==
    /\ status = "done"
    /\ IsSome(llmOut)
    /\ Val(llmOut).kind = "raise"
    /\ state.final_output = Some(ErrorPrefix \o Val(llmOut).text)

Fields == {"messages", "jira_issue_key", "jira_issue", "workspace",
           "repo_slug", "repo_list", "repo_files", "final_output"}
Designated(n) ==
    CASE n = "process_input" -> {"jira_issue_key", "messages"}
      [] n = "fetch_jira" -> {"jira_issue"}
      [] n = "extract_repo" -> {"workspace", "repo_slug"}
      [] n = "list_repos" -> {"repo_list"}
      [] n = "list_files" -> {"repo_files"}
      [] n = "synthesize" -> {"final_output", "messages"}

\* C18: the stage that runs leaves every field other than its designated
\* ones as it was, whether its tool call succeeded or failed.
C18_StagesWriteOwnFields ==
    [][\A n \in Nodes :
          StageRan(n) =>
              \A f \in Fields \ Designated(n) : state'[f] = state[f]]_vars
C18_Witness ==
    /\ Len(trace) >= 4
    /\ Last(trace) = "list_repos"
    /\ IsSome(state.repo_slug)
    /\ IsNone(state.repo_list)
    /\ Len(calls) = 2

CallsOf(tool) == {i \in 1..Len(calls) : calls[i].tool = tool}

\* C19: in one run jira_get_issue is called at most once, listRepositories
\* at most once and listRepositoryFiles at most twice, for the root first
\* and "web-store" second, whatever failed.
C19_NoRetries ==
    /\ Cardinality(CallsOf("jira_get_issue")) <= 1
    /\ Cardinality(CallsOf("listRepositories")) <= 1
    /\ Cardinality(CallsOf("listRepositoryFiles")) <= 2
    /\ \A i, j \in CallsOf("listRepositoryFiles") :
           i < j => calls[i].path = "" /\ calls[j].path = "web-store"
C19_Witness ==
    /\ Cardinality(CallsOf("listRepositoryFiles")) = 2
    /\ Last(trace) = "list_files"
    /\ IsNone(state.repo_files)
    /\ IsNone(state.repo_list)
    /\ Len(calls) = 4

(***************************************************************************)
(* Concurrent invocations                                                  *)
(***************************************************************************)
Gathered == {"jira_issue", "workspace", "repo_slug", "repo_list",
             "repo_files", "final_output"}

\* C20: every invocation has a dict of its own, which holds None in every
\* gathered field when the invocation starts, and the dict of a run changes
\* only in a step of that run.
C20_RunsDoNotShareState ==
    [][/\ \A r1, r2 \in Runs :
              (r1 # r2 /\ runDict'[r1] # 0) => runDict'[r1] # runDict'[r2]
       /\ \A r \in Runs :
              (runAt[r] = "idle" /\ runAt'[r] # "idle") =>
                  \A f \in Gathered : dicts'[runDict'[r]][f] = None
       /\ \A r \in Runs :
              (runDict[r] # 0 /\ runAt'[r] = runAt[r]) =>
                  dicts'[runDict[r]] = dicts[runDict[r]]]_vars
C20_Witness ==
    /\ \A r \in Runs : runAt[r] \in Nodes \ {EntryPoint}
    /\ dicts[runDict[1]] # dicts[runDict[2]]
    /\ IsSome(dicts[runDict[1]].jira_issue)
    /\ IsNone(dicts[runDict[2]].jira_issue)

\* C21: two runs given the same input, the same tool responses and the same
\* deterministic client return the same final_output, whatever other runs
\* did before or in between.
C21_SameGivenSameOutput ==
    \A r1, r2 \in Runs :
        (runAt[r1] = END /\ runAt[r2] = END /\ runGiven[r1] = runGiven[r2])
            => runResult[r1] = runResult[r2]
C21_Witness ==
    /\ runAt[1] = END
    /\ runAt[2] = END
    /\ runGiven[1] = runGiven[2]
    /\ runDict[1] # runDict[2]
    /\ runResult[1] = Some(<<"1", "1", "1", "1">>)

\* the text process_input searches: the content of the last message
LastContent(s) == s.messages[Len(s.messages)].content
KeyStarts(text) == {i \in 1..Len(text) : KeyMatchEnd(text, i) > 0}

\* C22: once process_input has run, issue_key is empty or is a full match of
\* [A-Z]+-\d+ (a text with no match leaves it empty).
C22_KeyEmptyOrPattern ==
    (Len(trace) >= 1 /\ status # "raised") =>
        (Len(state.jira_issue_key) = 0 \/ KeyFullMatch(state.jira_issue_key))

\* C23: when the input text contains a match of [A-Z]+-\d+, process_input
\* sets issue_key to the leftmost one, whatever key the incoming state held.
C23_LeftmostMatch ==
    [][(StageRan("process_input") /\ KeyStarts(LastContent(state')) # {}) =>
          \E i \in KeyStarts(LastContent(state')) :
              /\ \A j \in KeyStarts(LastContent(state')) : i <= j
              /\ state'.jira_issue_key =
                     SubSeq(LastContent(state'), i,
                            KeyMatchEnd(LastContent(state'), i))]_vars
C23_Witness ==
    /\ Len(trace) >= 1
    /\ state.jira_issue_key = <<"A", "-", "1">>
    /\ Len(LastContent(state)) = Len(AnalyzePrefix) + 8

\* C24: get_issue is called only with a non-empty issue_key, list_repositories
\* only with a workspace, list_repository_files only with a workspace and a
\* repo_slug; a stage whose precondition fails calls nothing and returns the
\* state as it received it.
C24_CallsNeedPrecondition ==
    [][/\ (StageRan("fetch_jira") /\ Len(state.jira_issue_key) = 0)
              => (calls' = calls /\ state' = state /\ status' # "raised")
       /\ (StageRan("list_repos") /\ IsNone(state.workspace))
              => (calls' = calls /\ state' = state /\ status' # "raised")
       /\ (StageRan("list_files")
               /\ (IsNone(state.workspace) \/ IsNone(state.repo_slug)))
              => (calls' = calls /\ state' = state /\ status' # "raised")
       /\ (StageRan("fetch_jira") /\ Len(state.jira_issue_key) > 0
               /\ lastOut'[1].kind # "ctor_raise")
              => Len(calls') = Len(calls) + 1
       /\ (StageRan("list_repos") /\ IsSome(state.workspace)
               /\ lastOut'[1].kind # "ctor_raise")
              => Len(calls') = Len(calls) + 1
       /\ (StageRan("list_files") /\ IsSome(state.workspace)
               /\ IsSome(state.repo_slug) /\ lastOut'[1].kind # "ctor_raise")
              => Len(calls') > Len(calls)]_vars
C24_Witness ==
    /\ Len(trace) > 0 /\ Last(trace) = "list_files"
    /\ IsSome(state.workspace) /\ IsNone(state.repo_slug)
    /\ Cardinality(CallsOf("listRepositories")) = 1
    /\ Cardinality(CallsOf("listRepositoryFiles")) = 0

\* C25: after fetch_issue ran with a non-empty key, issue_record is non-null
\* exactly when the call returned, its trimmed payload starts with "{" or "["
\* and it decoded; in every other case it is null and the stage still returns.
C25_IssueRecordOnlyFromJson ==
    [][(StageRan("fetch_jira") /\ Len(state.jira_issue_key) > 0) =>
          /\ status' # "raised"
          /\ Len(lastOut') = 1
          /\ IF /\ lastOut'[1].kind = "ok"
                /\ lastOut'[1].payload.looks
                /\ lastOut'[1].payload.valid
             THEN state'.jira_issue = Some(lastOut'[1].payload.val)
             ELSE IsNone(state'.jira_issue)]_vars
C25_Witness ==
    /\ Len(trace) > 0 /\ Last(trace) = "fetch_jira"
    /\ Len(lastOut) = 1 /\ lastOut[1].kind = "ok"
    /\ lastOut[1].payload.valid /\ ~lastOut[1].payload.looks
    /\ IsNone(state.jira_issue)

\* an issue record resolve_repo can read: a non-empty JSON object
Readable(s) ==
    /\ IsSome(s.jira_issue)
    /\ Val(s.jira_issue).t = "dict"
    /\ ~Val(s.jira_issue).empty

\* C26: resolve_repo takes workspace and repo_slug from the description when
\* it holds a repository URL; when the description holds none (absent and
\* null included) and the url does, it takes them from the url.
C26_DescriptionThenUrl ==
    [][(StageRan("extract_repo") /\ Readable(state)) =>
          LET inDescription == RepoUrlSearch(Val(state.jira_issue).description)
              inUrl == RepoUrlSearch(Val(state.jira_issue).url)
          IN  /\ IsSome(inDescription) =>
                     /\ state'.workspace = Some(Val(inDescription).workspace)
                     /\ state'.repo_slug = Some(Val(inDescription).repo_slug)
              /\ (IsNone(inDescription) /\ IsSome(inUrl)) =>
                     /\ state'.workspace = Some(Val(inUrl).workspace)
                     /\ state'.repo_slug = Some(Val(inUrl).repo_slug)]_vars

\* C27: when neither the description nor the url holds a repository URL,
\* resolve_repo sets workspace (to the alphabetic prefix of issue_key) and
\* leaves repo_slug null.
C27_WorkspaceFromIssueKey ==
    [][(/\ StageRan("extract_repo") /\ Readable(state)
        /\ KeyFullMatch(state.jira_issue_key)
        /\ Val(state.jira_issue).description # "null"
        /\ Val(state.jira_issue).url # "null"
        /\ IsNone(RepoUrlSearch(Val(state.jira_issue).description))
        /\ IsNone(RepoUrlSearch(Val(state.jira_issue).url)))
          => (IsSome(state'.workspace) /\ IsNone(state'.repo_slug))]_vars

\* the root listing has an entry with path "web-store" and type "directory"
HasWebStoreDirectory(root) ==
    /\ root.t = "dict"
    /\ root.files \notin {"absent", "number"}
    /\ \E f \in FileEntries(root.files) :
           f.path = "web-store" /\ f.type = "directory"

\* C28: given a decoded root listing, list_files makes the second call, with
\* path "web-store", exactly when the listing has an entry of path
\* "web-store" and type "directory"; the inventory it then stores has exactly
\* the keys root and web_store, and the inventory stored after a single call
\* has the key root only.
C28_SecondCallIffWebStore ==
    [][(/\ StageRan("list_files")
        /\ IsSome(state.workspace) /\ IsSome(state.repo_slug)
        /\ lastOut'[1].kind = "ok" /\ lastOut'[1].payload.valid) =>
          LET root == lastOut'[1].payload.val
              made == SubSeq(calls', Len(calls) + 1, Len(calls'))
          IN  /\ \A i \in 1..Len(made) : made[i].tool = "listRepositoryFiles"
              /\ made[1].path = ""
              /\ IF HasWebStoreDirectory(root)
                 THEN /\ Len(made) = 2
                      /\ made[2].path = "web-store"
                      /\ IsSome(state'.repo_files) =>
                             /\ DOMAIN Val(state'.repo_files)
                                    = {"root", "web_store"}
                             /\ Val(state'.repo_files).root = root
                             /\ Val(state'.repo_files).web_store
                                    = lastOut'[2].payload.val
                      /\ (lastOut'[2].kind = "ok" /\ lastOut'[2].payload.valid)
                             => IsSome(state'.repo_files)
                 ELSE /\ Len(made) = 1
                      /\ IsSome(state'.repo_files) =>
                             /\ DOMAIN Val(state'.repo_files) = {"root"}
                             /\ Val(state'.repo_files).root = root
                      /\ (root.t = "dict" /\ root.files # "number")
                             => IsSome(state'.repo_files)]_vars
C28_Witness ==
    /\ Len(trace) > 0 /\ Last(trace) = "list_files"
    /\ IsSome(state.repo_files)
    /\ DOMAIN Val(state.repo_files) = {"root", "web_store"}
    /\ Cardinality(CallsOf("listRepositoryFiles")) = 2

\* C29: when either list_repository_files call raises, file_inventory is
\* null after the stage, also when the root call had succeeded, and the stage
\* returns normally.
C29_AnyFileCallFailureNullsInventory ==
    [][(/\ StageRan("list_files")
        /\ \E i \in 1..Len(lastOut') :
               lastOut'[i].kind \in {"raise", "ctor_raise"})
          => (IsNone(state'.repo_files) /\ status' # "raised")]_vars
C29_Witness ==
    /\ Len(trace) > 0 /\ Last(trace) = "list_files"
    /\ Len(lastOut) = 2
    /\ lastOut[1].kind = "ok" /\ lastOut[1].payload.valid
    /\ lastOut[2].kind = "raise"
    /\ IsNone(state.repo_files)
    /\ status = "running"

\* C30: what list_repos stores in repo_listing is the decoded response,
\* whether repo_slug is unset, set and in the listing, or set and not in it;
\* a call that raises or a payload that does not decode gives null.
C30_ListingIgnoresSlug ==
    [][(StageRan("list_repos") /\ IsSome(state.workspace)) =>
          /\ status' # "raised"
          /\ state'.repo_slug = state.repo_slug
          /\ (lastOut'[1].kind # "ok" \/ ~lastOut'[1].payload.valid)
                 => IsNone(state'.repo_list)
          /\ (/\ lastOut'[1].kind = "ok" /\ lastOut'[1].payload.valid
              /\ lastOut'[1].payload.val.t = "list")
                 => state'.repo_list = Some(lastOut'[1].payload.val)]_vars
C30_Witness ==
    /\ Len(trace) > 0 /\ Last(trace) = "list_repos"
    /\ IsSome(state.repo_slug) /\ IsSome(state.repo_list)
    /\ Val(state.repo_list).t = "list"
    /\ Val(state.repo_slug) \notin Val(state.repo_list).slugs


(***************************************************************************)
(* The dependency chain of the gathered fields, the adapters, the wrapper  *)
(* around the underlying kickoff, message normalization                    *)
(***************************************************************************)
\* C32: in a run started from the fresh initial state, file_inventory
\* non-null implies repo_slug non-null, repo_slug and repo_listing non-null
\* each imply workspace non-null, workspace non-null implies issue_record
\* non-null, and issue_record non-null implies issue_key non-empty.
C32_DependencyChain ==
    /\ IsSome(state.repo_files) => IsSome(state.repo_slug)
    /\ IsSome(state.repo_slug) => IsSome(state.workspace)
    /\ IsSome(state.repo_list) => IsSome(state.workspace)
    /\ IsSome(state.workspace) => IsSome(state.jira_issue)
    /\ IsSome(state.jira_issue) => Len(state.jira_issue_key) > 0
C32_Witness ==
    /\ status = "done"
    /\ IsSome(state.repo_files) /\ IsSome(state.repo_list)
    /\ IsSome(state.repo_slug) /\ IsSome(state.workspace)
    /\ IsSome(state.jira_issue) /\ Len(state.jira_issue_key) > 0


\* what an item of state["messages"] says, and who says it
ItemContent(m) ==
    IF m.form = "tuple" THEN m.items[1] ELSE m.content
ItemRole(m) ==
    IF m.form = "msg" THEN m.role
    ELSE IF m.form = "tuple2" /\ m.role \in {"ai", "assistant"} THEN "ai"
    ELSE "human"

\* C39: process_input returns as many messages as it was given, in the same
\* order: the i-th one carries the content of the i-th item, is an assistant
\* turn for a 2-tuple tagged ai or assistant, a human turn for every other
\* item that is not a message object, and the object itself otherwise.
C39_NormalizationKeepsMessages ==
    [][StageRan("process_input") =>
          /\ status' # "raised"
          /\ Len(state'.messages) = Len(state.messages)
          /\ \A i \in 1..Len(state.messages) :
                 /\ state'.messages[i].form = "msg"
                 /\ state'.messages[i].role = ItemRole(state.messages[i])
                 /\ state'.messages[i].content = ItemContent(state.messages[i])
                 /\ state.messages[i].form = "msg"
                        => state'.messages[i] = state.messages[i]]_vars


NoRefreshInProgress == \A k \in Kickoffs : kpc[k] \notin InRefresh

C34_AgentHasTools == bpc = "agent" => Len(mcp_tools) > 0

\* C36: kickoff and kickoff_async call the underlying kickoff exactly once,
\* with the caller's inputs, also after a refresh that failed; the invocation
\* ends with what that call did, its result unchanged or its exception.
C36_WrapperPassesThrough ==
    \A k \in Kickoffs :
        /\ kpc[k] \in {"idle", "clear", "get", "assign", "kick"}
               => under[k].passed = <<>>
        /\ kpc[k] \in {"running", "done"}
               => under[k].passed = <<under[k].given>>
        /\ kpc[k] = "done"
               => IsSome(under[k].outcome)
                      /\ under[k].returned = under[k].outcome
        /\ kpc[k] # "done" => IsNone(under[k].returned)
C36_Witness ==
    \E k \in Kickoffs :
        /\ kpc[k] = "done" /\ failed[k]
        /\ under[k].passed = <<InputsOf(k)>>
        /\ under[k].returned = Some([kind |-> "raise"])

\* C37: the refresh before a run calls get_mcp_tools() at most once, exactly
\* once by the time it has returned, failed or not, and never sleeps; sleeps
\* and further attempts happen only inside tech_lead_crew().
C37_RefreshTriesOnce ==
    /\ \A k \in Kickoffs :
           /\ gets[k] <= 1
           /\ kpc[k] \in {"assign", "kick", "running", "done"} => gets[k] = 1
    /\ Len(waits) = (IF fails < max_retries THEN fails ELSE max_retries - 1)
C37_Witness ==
    /\ \E k \in Kickoffs : kpc[k] = "done" /\ failed[k] /\ gets[k] = 1
    /\ waits = <<>>


Failed(d) == d.kind \in {"open_failed", "fail"}

\* C31: a _run whose session could not be opened, or whose call_tool
\* failed, gives its caller no value: it raises; a JSON-looking text that
\* does not decode is no failure and is given back as the server sent it.
C31_AdapterRaisesOnFailure ==
    \A i \in 1..Len(toolRet) :
        /\ Failed(toolRet[i].did) => toolRet[i].out = RaisesToCaller
        /\ (/\ toolRet[i].did.kind = "content"
            /\ toolRet[i].did.text.looks
            /\ ~toolRet[i].did.text.valid)
               => toolRet[i].out = [kind |-> "ok", text |-> toolRet[i].did.text]
C31_Witness ==
    /\ Len(toolRet) = 2
    /\ toolRet[1].did.kind = "fail" /\ toolRet[1].out.kind = "raise"
    /\ toolRet[2].did.kind = "content"
    /\ toolRet[2].did.text.looks /\ ~toolRet[2].did.text.valid
    /\ toolRet[2].out.kind = "ok" /\ toolRet[2].out.text.form = "raw"

\* C35: every _run that gets as far as a session has its own one, on which
\* call_tool is awaited at most once, and that session is closed when the
\* _run has ended, with a text or with an exception: while no _run is in
\* progress no session is open.
C35_SessionPerCall ==
    /\ tpc = "idle" => \A i \in 1..Len(sess) : ~sess[i].open
    /\ \A i \in 1..Len(sess) :
           /\ sess[i].calls <= 1
           /\ sess[i].open => i = Len(sess)
    /\ Len(sess) = Cardinality({i \in 1..Len(toolRet) :
                                    toolRet[i].did.kind # "open_failed"})
                       + (IF tpc \in {"call", "exit"} THEN 1 ELSE 0)
C35_Witness ==
    /\ tpc = "idle"
    /\ Len(toolRet) = 2 /\ Len(sess) = 2
    /\ toolRet[1].out.kind = "raise" /\ toolRet[2].out.kind = "ok"
    /\ sess[1].calls = 1 /\ sess[2].calls = 1

\* C38: MCPToolWrapper caches a client only once it is established, and
\* call_tool is never issued on a client whose establishment failed.
C38_CachesEstablishedClient ==
    /\ IsSome(client) => clients[Val(client)].entered
    /\ \A i \in 1..Len(clients) : clients[i].calls > 0 => clients[i].entered

====
